---- MODULE Spec2Model ----
(***************************************************************************)
(* 17lands-draft-notifier.py: the ratings join, the read loop over the     *)
(* draft log, the ranking of a pack and the printed card lines.            *)
(*                                                                         *)
(* A Python str is a sequence of one-character strings, so that strip,     *)
(* replace, int() and float() act on characters; a printed line is the     *)
(* TLA+ string of its characters.  A float is held as an integer number of *)
(* hundredths (the input pools hold at most two fractional digits).  None  *)
(* is the empty sequence and a present value v is <<v>>.                   *)
(*                                                                         *)
(* Of the sixteen metric columns four are modelled, one for each shape of  *)
(* code in CardRating: "# Seen" (int, displayed with str(..) or ""),       *)
(* "ALSA" (float, :.02f), "GIH WR" (float after strip("%"), :02.02f with   *)
(* "%") and "IWD" (float after strip("p"), :02.02f).                       *)
(***************************************************************************)
EXTENDS Integers, Sequences, FiniteSets, TLC

VARIABLES
    pc,              \* position of the main program
    argv,            \* the values lists argparse hands to SetAddAction, in order
    ids_file,        \* rows of the ids CSV (DictReader rows)
    ratings_file,    \* rows of the ratings CSV (DictReader rows)
    ratings_column,  \* args.ratings_column
    ratings_by_id,   \* the lookup table, None before it is built
    n_build,         \* number of times build_dict_by_card_id ran
    n_read,          \* 1 once a line has been read from stdin, else 0
    line,            \* the line read last, None before the first
    dealt,           \* the cards of the last pack in the order dealt
    pack,            \* the last DraftPack (cards as ranked), None if there is none
    out,             \* the lines printed by the last step
    err              \* the exception that ended the process, "" if none

vars == <<pc, argv, ids_file, ratings_file, ratings_column, ratings_by_id,
          n_build, n_read, line, dealt, pack, out, err>>

(***************************************************************************)
(* Bounds                                                                  *)
(***************************************************************************)
MaxPack == 3      \* cards in a pack (card_ids of a notification)
MaxKeys == 2      \* sort keys in a ranking configuration
MaxOpts == 2      \* occurrences of --ratings-column on the command line
MaxVals == 2      \* values of one --ratings-column occurrence
MaxRows == 2      \* rows of a CSV table
MaxLine == 2      \* tokens of a log line drawn from every kind of token

(***************************************************************************)
(* Python values                                                           *)
(***************************************************************************)
None == <<>>
Some(v) == <<v>>

Digits == <<"0", "1", "2", "3", "4", "5", "6", "7", "8", "9">>

IsDigit(c) == \E d \in 1..10 : Digits[d] = c

DigitVal(c) == (CHOOSE d \in 1..10 : Digits[d] = c) - 1

RECURSIVE Text(_)
\* "".join(s): the string of a sequence of characters
Text(s) == IF s = <<>> THEN "" ELSE Head(s) \o Text(Tail(s))

RECURSIVE lstrip(_, _)
lstrip(s, chars) ==
    IF s # <<>> /\ Head(s) \in chars THEN lstrip(Tail(s), chars) ELSE s

RECURSIVE rstrip(_, _)
rstrip(s, chars) ==
    IF s # <<>> /\ s[Len(s)] \in chars
    THEN rstrip(SubSeq(s, 1, Len(s) - 1), chars)
    ELSE s

\* str.strip(chars); str.strip() strips whitespace
strip(s, chars) == rstrip(lstrip(s, chars), chars)

Whitespace == {" "}

\* str.replace(old, new) for a one-character old
replace(s, old, new) == [i \in 1..Len(s) |-> IF s[i] = old THEN new ELSE s[i]]

RECURSIVE DigitsVal(_)
DigitsVal(s) ==
    IF s = <<>> THEN 0
    ELSE 10 * DigitsVal(SubSeq(s, 1, Len(s) - 1)) + DigitVal(s[Len(s)])

AllDigits(s) == \A i \in 1..Len(s) : IsDigit(s[i])

Unsigned(s) == IF s # <<>> /\ Head(s) \in {"-", "+"} THEN Tail(s) ELSE s

Sign(s) == IF s # <<>> /\ Head(s) = "-" THEN -1 ELSE 1

\* int(s): None when Python raises ValueError
int(s) ==
    LET t == strip(s, Whitespace)
        u == Unsigned(t)
    IN  IF u # <<>> /\ AllDigits(u) THEN Some(Sign(t) * DigitsVal(u)) ELSE None

\* float(s) in hundredths: None when Python raises ValueError.  Defined for
\* the decimal notation of the ratings export with at most two fractional
\* digits, which is all the input rows hold
float(s) ==
    LET t == strip(s, Whitespace)
        u == Unsigned(t)
        dots == {i \in 1..Len(u) : u[i] = "."}
        p == IF dots = {} THEN Len(u) + 1 ELSE CHOOSE i \in dots : TRUE
        whole == SubSeq(u, 1, p - 1)
        frac == SubSeq(u, p + 1, Len(u))
        cents == IF Len(frac) = 0 THEN 0
                 ELSE IF Len(frac) = 1 THEN 10 * DigitsVal(frac)
                 ELSE DigitsVal(frac)
    IN  IF /\ Cardinality(dots) <= 1
           /\ Len(whole) + Len(frac) > 0
           /\ Len(frac) <= 2
           /\ AllDigits(whole) /\ AllDigits(frac)
        THEN Some(Sign(t) * (100 * DigitsVal(whole) + cents))
        ELSE None

RECURSIVE NatChars(_)
NatChars(n) ==
    IF n < 10 THEN <<Digits[n + 1]>>
    ELSE Append(NatChars(n \div 10), Digits[(n % 10) + 1])

\* str(n) for an int, as characters
IntChars(n) == IF n < 0 THEN <<"-">> \o NatChars(-n) ELSE NatChars(n)

NatStr(n) == Text(NatChars(n))

IntStr(n) == Text(IntChars(n))

\* f"{n:02d}"
Fmt02d(n) ==
    IF n < 0 THEN "-" \o NatStr(-n)
    ELSE IF n < 10 THEN "0" \o NatStr(n) ELSE NatStr(n)

\* f"{x:.02f}" and f"{x:02.02f}" of a float held in hundredths
Fmt02f(h) ==
    LET a == IF h < 0 THEN -h ELSE h
    IN  (IF h < 0 THEN "-" ELSE "") \o NatStr(a \div 100) \o "."
            \o Digits[((a % 100) \div 10) + 1] \o Digits[(a % 10) + 1]

(***************************************************************************)
(* Column names, as the CSV headers and the --ratings-column tokens spell  *)
(* them                                                                    *)
(***************************************************************************)
Name == <<"N", "a", "m", "e">>
CardID == <<"C", "a", "r", "d", "I", "D">>
Color == <<"C", "o", "l", "o", "r">>
Rarity == <<"R", "a", "r", "i", "t", "y">>
NumSeen == <<"#", " ", "S", "e", "e", "n">>
ALSA == <<"A", "L", "S", "A">>
GIH_WR == <<"G", "I", "H", " ", "W", "R">>
IWD == <<"I", "W", "D">>

\* the module-level dict columns: CSV column name -> attribute name
columns ==
    (Name :> "name") @@ (CardID :> "card_id") @@ (Color :> "color")
        @@ (Rarity :> "rarity") @@ (NumSeen :> "num_seen") @@ (ALSA :> "alsa")
        @@ (GIH_WR :> "gih_wr") @@ (IWD :> "iwd")

(***************************************************************************)
(* SetAddAction and parse_args                                             *)
(***************************************************************************)
Range(s) == {s[i] : i \in 1..Len(s)}

RECURSIVE extend_new(_, _)
\* items.extend(value for value in values if value not in items): the
\* generator tests each value against items as extended so far
extend_new(items, values) ==
    IF values = <<>> THEN items
    ELSE extend_new(IF Head(values) \in Range(items) THEN items
                    ELSE Append(items, Head(values)),
                    Tail(values))

\* SetAddAction.__call__: the new value of namespace.ratings_column
SetAddAction(current, values) ==
    LET items == IF current = <<>> THEN <<>> ELSE current
    IN  extend_new(items, values)

\* default=["GIH WR"]: argparse stores it in the namespace before parsing
DefaultRatingsColumn == <<GIH_WR>>

RECURSIVE apply_options(_, _)
apply_options(current, options) ==
    IF options = <<>> THEN current
    ELSE apply_options(SetAddAction(current, Head(options)), Tail(options))

\* parser.parse_args(): args.ratings_column after every -r occurrence
parse_args(options) == apply_options(DefaultRatingsColumn, options)

(***************************************************************************)
(* CardRating                                                              *)
(***************************************************************************)
\* card.get(col): None when the row has no such column
get(card, col) == IF col \in DOMAIN card THEN card[col] ELSE None

\* "None if not card.get(col) else int(card[col])"
opt_int(card, col) == IF get(card, col) = <<>> THEN None ELSE int(card[col])

\* "None if not card.get(col) else float(card[col].strip(chars))"
opt_float(card, col, chars) ==
    IF get(card, col) = <<>> THEN None ELSE float(strip(card[col], chars))

\* the exception CardRating.__init__ raises on this row, "" if none
CardRatingError(card) ==
    IF ~({Name, CardID, Color, Rarity} \subseteq DOMAIN card) THEN "KeyError"
    ELSE IF \/ int(card[CardID]) = None
            \/ get(card, NumSeen) # <<>> /\ int(card[NumSeen]) = None
            \/ get(card, ALSA) # <<>> /\ float(card[ALSA]) = None
            \/ get(card, GIH_WR) # <<>> /\ float(strip(card[GIH_WR], {"%"})) = None
            \/ get(card, IWD) # <<>> /\ float(strip(card[IWD], {"p"})) = None
         THEN "ValueError"
         ELSE ""

\* CardRating.__init__
CardRating(card) ==
    [name |-> card[Name],
     card_id |-> int(card[CardID])[1],
     color |-> card[Color],
     rarity |-> card[Rarity],
     _num_seen |-> opt_int(card, NumSeen),
     _alsa |-> opt_float(card, ALSA, {}),
     _gih_wr |-> opt_float(card, GIH_WR, {"%"}),
     _iwd |-> opt_float(card, IWD, {"p"})]

\* str(x) of an int | None
str(x) == IF x = None THEN "None" ELSE IntStr(x[1])

\* Python's "a or b" on strings
Or(a, b) == IF a = "" THEN b ELSE a

\* the display properties
num_seen(self) == Or(str(self._num_seen), "")

alsa(self) == IF self._alsa # None THEN Fmt02f(self._alsa[1]) ELSE ""

gih_wr(self) == IF self._gih_wr # None THEN Fmt02f(self._gih_wr[1]) \o "%" ELSE ""

iwd(self) == IF self._iwd # None THEN Fmt02f(self._iwd[1]) ELSE ""

\* getattr(card, attr) for the attributes print_columns reads
getattr(card, attr) ==
    CASE attr = "num_seen" -> num_seen(card)
      [] attr = "alsa" -> alsa(card)
      [] attr = "gih_wr" -> gih_wr(card)
      [] attr = "iwd" -> iwd(card)
      [] attr = "name" -> Text(card.name)
      [] attr = "card_id" -> IntStr(card.card_id)
      [] attr = "color" -> Text(card.color)
      [] attr = "rarity" -> Text(card.rarity)

RECURSIVE join(_, _)
\* sep.join(parts)
join(sep, parts) ==
    IF parts = <<>> THEN ""
    ELSE IF Len(parts) = 1 THEN parts[1]
    ELSE parts[1] \o sep \o join(sep, Tail(parts))

\* print_column with the label as the user spelt it, spaces kept
print_column_raw_label(card, k) ==
    Text(strip(k, {"-"})) \o " = "
        \o Or(getattr(card, columns[strip(k, {"-"})]), " --- ")

\* one column of print_columns.  The method reads the module-level name
\* card, not self; the printing loop binds it to the card being printed
print_column(card, k) ==
    Text(replace(strip(k, {"-"}), " ", "_")) \o " = "
        \o Or(getattr(card, columns[strip(k, {"-"})]), " --- ")

\* CardRating.print_columns
print_columns(card, ratings_columns) ==
    join("\t", [i \in 1..Len(ratings_columns) |->
                   print_column(card, ratings_columns[i])])

(***************************************************************************)
(* build_dict_by_card_id                                                   *)
(***************************************************************************)
Max(S) == CHOOSE m \in S : \A x \in S : x <= m

\* cards_by_name keyed by the names as the file spells them, not stripped
cards_by_name_unstripped(ids_rows) ==
    LET key(i) == ids_rows[i][Name]
    IN  [n \in {key(i) : i \in 1..Len(ids_rows)} |->
            ids_rows[Max({i \in 1..Len(ids_rows) : key(i) = n})]]

\* the dict comprehension over the ids rows: a later row replaces an
\* earlier one of the same stripped name
cards_by_name(ids_rows) ==
    LET key(i) == strip(ids_rows[i][Name], Whitespace)
    IN  [n \in {key(i) : i \in 1..Len(ids_rows)} |->
            ids_rows[Max({i \in 1..Len(ids_rows) : key(i) = n})]]

RECURSIVE join_rows(_, _, _)
\* the loop over the ratings rows: [err, dict], err the exception of the
\* first row that raises
join_rows(ratings_dict, rows, by_name) ==
    IF rows = <<>> THEN [err |-> "", dict |-> ratings_dict]
    ELSE LET ratings == Head(rows)
             n == strip(ratings[Name], Whitespace)
         IN  IF n \notin DOMAIN by_name
             THEN [err |-> "KeyError", dict |-> <<>>]
             ELSE LET card == by_name[n]
                      merged == ratings @@ card     \* card | ratings
                  IN  IF CardRatingError(merged) # ""
                      THEN [err |-> CardRatingError(merged), dict |-> <<>>]
                      ELSE join_rows((card[CardID] :> CardRating(merged))
                                         @@ ratings_dict,
                                     Tail(rows), by_name)

build_dict_by_card_id(ratings_rows, ids_rows) ==
    join_rows(<<>>, ratings_rows, cards_by_name(ids_rows))

(***************************************************************************)
(* A log line is a sequence of tokens: whitespace, other text (holding no  *)
(* marker and no brace), the marker "(Draft.Notify): ", and a brace-       *)
(* delimited span "{...}" that carries the mapping eval() makes of it.     *)
(***************************************************************************)
WS == [t |-> "ws", d |-> <<>>]
TXT == [t |-> "text", d |-> <<>>]
MARK == [t |-> "mark", d |-> <<>>]
DICT(d) == [t |-> "dict", d |-> <<d>>]

RECURSIVE lstrip_ws(_)
lstrip_ws(s) == IF s # <<>> /\ Head(s).t = "ws" THEN lstrip_ws(Tail(s)) ELSE s

RECURSIVE rstrip_ws(_)
rstrip_ws(s) ==
    IF s # <<>> /\ s[Len(s)].t = "ws"
    THEN rstrip_ws(SubSeq(s, 1, Len(s) - 1))
    ELSE s

\* line.strip()
line_strip(s) == rstrip_ws(lstrip_ws(s))

\* the pattern without the marker: any line that ends with a brace-delimited
\* span matches
draft_notify_re_unmarked(s) ==
    LET starts == {i \in 1..Len(s) : s[i].t = "dict"}
    IN  IF starts = {} \/ s[Len(s)].t # "dict" THEN None
        ELSE Some(SubSeq(s, Max(starts), Len(s)))

\* draft_notify_re.match(line).group("draft_notify"), None without a match:
\* "^.*" is greedy, so the group starts after the last marker that a brace
\* follows, and "\{.*\}$" asks the line to end with a closing brace
draft_notify_re(s) ==
    LET starts == {i \in 1..Len(s) - 1 : s[i].t = "mark" /\ s[i + 1].t = "dict"}
    IN  IF starts = {} \/ s[Len(s)].t # "dict" THEN None
        ELSE Some(SubSeq(s, Max(starts) + 1, Len(s)))

\* eval(text): the mapping of one brace-delimited span; anything after the
\* span is a SyntaxError (None)
eval(group) == IF Len(group) = 1 THEN Some(group[1].d[1]) ELSE None

(***************************************************************************)
(* DraftPack                                                               *)
(***************************************************************************)
DraftPackKeys ==
    {"draft_id", "event_name", "pack_number", "pick_number", "method", "card_ids"}

\* the exception DraftPack(ratings_by_id, **d) raises, "" if none
DraftPackError(table, d) ==
    IF DOMAIN d # DraftPackKeys THEN "TypeError"
    ELSE IF \E i \in 1..Len(d.card_ids) : IntChars(d.card_ids[i]) \notin DOMAIN table
         THEN "KeyError"
         ELSE ""

\* DraftPack.__init__
DraftPack(table, d) ==
    [draft_id |-> d.draft_id,
     event_name |-> d.event_name,
     pack_number |-> d.pack_number,
     pick_number |-> d.pick_number,
     card_ids |-> d.card_ids,
     method |-> d.method,
     cards |-> [i \in 1..Len(d.card_ids) |-> table[IntChars(d.card_ids[i])]]]

(***************************************************************************)
(* pack.cards.sort(key=..., reverse=True)                                  *)
(***************************************************************************)
\* "x or 0" of an int | float | None
or0(x) == IF x = None THEN 0 ELSE x[1]

\* the key lambda without the negation of a "-" column
sort_key_not_negated(card, ratings_columns) ==
    [i \in 1..Len(ratings_columns) |->
        LET k == ratings_columns[i]
        IN  IF k[1] = "-" THEN or0(card["_" \o columns[Tail(k)]])
            ELSE or0(card["_" \o columns[k]])]

\* the key lambda: one component for each ratings column
sort_key(card, ratings_columns) ==
    [i \in 1..Len(ratings_columns) |->
        LET k == ratings_columns[i]
        IN  IF k[1] = "-" THEN -or0(card["_" \o columns[Tail(k)]])
            ELSE or0(card["_" \o columns[k]])]

\* a < b on tuples of equal length
tuple_lt(a, b) ==
    \E i \in 1..Len(a) : a[i] < b[i] /\ \A j \in 1..(i - 1) : a[j] = b[j]

\* the place of x in a descending sort that is not stable: before the first
\* element whose key is not larger
insert_at_before_equal(sorted, x, ratings_columns) ==
    LET not_larger == {i \in 1..Len(sorted) :
                          ~tuple_lt(sort_key(x, ratings_columns),
                                    sort_key(sorted[i], ratings_columns))}
    IN  IF not_larger = {} THEN Len(sorted) + 1
        ELSE CHOOSE i \in not_larger : \A j \in not_larger : i <= j

\* where list.sort(reverse=True) puts x among the elements sorted so far:
\* before the first one of a smaller key, so after every equal one
insert_at(sorted, x, ratings_columns) ==
    LET smaller == {i \in 1..Len(sorted) :
                       tuple_lt(sort_key(sorted[i], ratings_columns),
                                sort_key(x, ratings_columns))}
    IN  IF smaller = {} THEN Len(sorted) + 1
        ELSE CHOOSE i \in smaller : \A j \in smaller : i <= j

insert(sorted, x, ratings_columns) ==
    LET p == insert_at(sorted, x, ratings_columns)
    IN  SubSeq(sorted, 1, p - 1) \o <<x>> \o SubSeq(sorted, p, Len(sorted))

RECURSIVE sort_from(_, _, _)
sort_from(sorted, rest, ratings_columns) ==
    IF rest = <<>> THEN sorted
    ELSE sort_from(insert(sorted, Head(rest), ratings_columns), Tail(rest),
                   ratings_columns)

\* the list after cards.sort(key=..., reverse=True): descending, stable
sort(cards, ratings_columns) == sort_from(<<>>, cards, ratings_columns)

(***************************************************************************)
(* Printing                                                                *)
(***************************************************************************)
\* print(args)
print_args(columns_) ==
    <<"Namespace(ratings=..., ids=..., ratings_column=["
          \o join(", ", [i \in 1..Len(columns_) |-> "'" \o Text(columns_[i]) \o "'"])
          \o "])">>

\* print(f"\n\nDraft ... Pack ... Pick ...:\n"): the lines it writes
print_header(p) ==
    <<"", "",
      "Draft " \o Text(p.draft_id) \o " Pack " \o IntStr(p.pack_number)
          \o " Pick " \o IntStr(p.pick_number) \o ":",
      "">>

\* the card line of the i-th card of enumerate(pack.cards), i from 0
print_card(p, i, ratings_columns) ==
    LET card == p.cards[i + 1]
    IN  Fmt02d(i + p.pick_number) \o ":\t"
            \o print_columns(card, ratings_columns) \o "\t"
            \o "|\t" \o IntStr(card.card_id) \o "\t'" \o Text(card.name) \o "'\t"
            \o Text(card.color) \o "\t" \o Text(card.rarity)

\* everything printed for a ranked pack
print_pack(p, ratings_columns) ==
    print_header(p)
        \o [i \in 1..Len(p.cards) |-> print_card(p, i - 1, ratings_columns)]

(***************************************************************************)
(* Inputs: the rows of the two CSV files, the command line, the log lines  *)
(***************************************************************************)
SeqUpTo(S, n) == UNION {[1..k -> S] : k \in 0..n}

SeqFrom1(S, n) == UNION {[1..k -> S] : k \in 1..n}

Bolt == <<"B", "o", "l", "t">>
Opt == <<"O", "p", "t">>
Bear == <<"B", "e", "a", "r">>
Elf == <<"E", "l", "f">>
Shock == <<"S", "h", "o", "c", "k">>

\* a row of the ids CSV
IdRow(name, id, color, rarity) ==
    (Name :> name) @@ (CardID :> id) @@ (Color :> color) @@ (Rarity :> rarity)

IdBolt == IdRow(Bolt, <<"1">>, <<"R">>, <<"C">>)
IdOpt == IdRow(<<" ">> \o Opt, <<"2">>, <<"U">>, <<"C">>)
IdBear == IdRow(Bear, <<"3">>, <<"G">>, <<"U">>)
IdElf == IdRow(Elf, <<"4">>, <<"G">>, <<"C">>)
IdShock == IdRow(Shock, <<"0", "1">>, <<"R">>, <<"C">>)   \* the id of Bolt, spelt 01
IdBolt7 == IdRow(Bolt, <<"7">>, <<"R">>, <<"C">>)          \* Bolt again, another id
IdOptX == IdRow(Opt, <<"x", "2">>, <<"U">>, <<"C">>)       \* not a number

\* rows of the ratings CSV
StBolt ==
    (Name :> Bolt) @@ (GIH_WR :> <<"6", "2", ".", "5", "0", "%">>)
        @@ (ALSA :> <<"2", ".", "1", "0">>)
StOpt ==
    (Name :> Opt \o <<" ">>) @@ (NumSeen :> <<"7">>) @@ (ALSA :> <<"2", ".", "1", "0">>)
        @@ (GIH_WR :> <<"5", "5", "%">>) @@ (IWD :> <<"-", "1", ".", "5", "p", "p">>)
StBear ==
    (Name :> Bear) @@ (NumSeen :> <<>>) @@ (ALSA :> <<>>) @@ (GIH_WR :> <<>>)
        @@ (IWD :> <<>>)
StElf ==
    (Name :> Elf) @@ (NumSeen :> <<"0">>) @@ (ALSA :> <<"4">>)
        @@ (GIH_WR :> <<"5", "5", ".", "0", "%">>) @@ (IWD :> <<"0", "p", "p">>)
StBolt2 ==
    (Name :> Bolt) @@ (NumSeen :> <<"9">>) @@ (GIH_WR :> <<"1", "0", "%">>)
StShock == (Name :> Shock) @@ (GIH_WR :> <<"4", "8", ".", "2", "%">>)
StBad == (Name :> Elf) @@ (NumSeen :> <<"n", "/", "a">>)

IdRowPool == {IdBolt, IdOpt, IdShock, IdBolt7, IdOptX, IdElf}
StatRowPool == {StBolt, StOpt, StBolt2, StShock, StBad, StBear}

\* the tables of the run: <<ids rows, ratings rows>>
BoltOnly == <<<<IdBolt>>, <<StBolt>>>>
TwoCards == <<<<IdBolt, IdOpt>>, <<StBolt, StOpt>>>>
Unjoinable == <<<<IdBolt>>, <<StBolt, StOpt>>>>
FourCards == <<<<IdBolt, IdOpt, IdBear, IdElf>>, <<StBolt, StOpt, StBear, StElf>>>>

MainTables == {BoltOnly, TwoCards, Unjoinable}

\* --ratings-column tokens
Neg(k) == <<"-">> \o k

ArgTokens == {GIH_WR, ALSA, Neg(ALSA)}
RankTokens == {GIH_WR, ALSA, Neg(ALSA), NumSeen, Neg(IWD)}

\* the command lines: each -r occurrence with its values (nargs=ONE_OR_MORE)
Argvs == SeqUpTo(SeqFrom1(ArgTokens, MaxVals), MaxOpts)

MainArgvs == {<<>>, <<<<GIH_WR>>>>, <<<<NumSeen, Neg(ALSA)>>>>}

\* the payload of a Draft.Notify line
Notify(pick_number, card_ids) ==
    [draft_id |-> <<"d", "1">>, event_name |-> <<"e">>, pack_number |-> 1,
     pick_number |-> pick_number, method |-> <<"p", "a", "c", "k">>,
     card_ids |-> card_ids]

NoCardIds ==
    [draft_id |-> <<"d", "1">>, event_name |-> <<"e">>, pack_number |-> 1,
     pick_number |-> 3, method |-> <<"p", "a", "c", "k">>]

MistypedKey ==
    [draft_id |-> <<"d", "1">>, event_name |-> <<"e">>, pack_number |-> 1,
     pick_number |-> 3, method |-> <<"p", "a", "c", "k">>, card_idz |-> <<1>>]

PickNumbers == {3, 12}
CardIds == {1, 2, 9}

Payloads ==
    {Notify(n, ids) : n \in PickNumbers, ids \in SeqUpTo(CardIds, MaxPack)}
        \cup {NoCardIds, MistypedKey}

\* every short line over the four kinds of token, a notification line for
\* every payload, and notifications with text around them
Lines ==
    LET d1 == DICT(Notify(3, <<1>>))
    IN  SeqUpTo({WS, TXT, MARK, d1}, MaxLine)
            \cup {<<TXT, MARK, DICT(d)>> : d \in Payloads}
            \cup {<<WS, TXT, MARK, d1, WS>>, <<TXT, MARK, d1, TXT>>,
                  <<TXT, MARK, d1, TXT, d1>>, <<MARK, TXT, MARK, d1>>}

(***************************************************************************)
(* The main program                                                        *)
(***************************************************************************)
Init ==
    /\ pc = "parse_args"
    /\ argv \in MainArgvs
    /\ \E t \in MainTables : ids_file = t[1] /\ ratings_file = t[2]
    /\ ratings_column = <<>>
    /\ ratings_by_id = <<>>
    /\ n_build = 0
    /\ n_read = 0
    /\ line = <<>>
    /\ dealt = <<>>
    /\ pack = None
    /\ out = <<>>
    /\ err = ""

\* args = parser.parse_args(); print(args)
ParseArgs ==
    /\ pc = "parse_args"
    /\ ratings_column' = parse_args(argv)
    /\ out' = print_args(ratings_column')
    /\ pc' = "build"
    /\ UNCHANGED <<argv, ids_file, ratings_file, ratings_by_id, n_build, n_read,
                   line, dealt, pack, err>>

\* ratings_by_id = build_dict_by_card_id(args.ratings, args.ids)
BuildDict ==
    /\ pc = "build"
    /\ build_dict_by_card_id(ratings_file, ids_file).err = ""
    /\ ratings_by_id' = build_dict_by_card_id(ratings_file, ids_file).dict
    /\ n_build' = n_build + 1
    /\ out' = <<>>
    /\ pc' = "readline"
    /\ UNCHANGED <<argv, ids_file, ratings_file, ratings_column, n_read, line,
                   dealt, pack, err>>

\* the same call raising: the traceback ends the process
BuildDictRaises ==
    /\ pc = "build"
    /\ build_dict_by_card_id(ratings_file, ids_file).err # ""
    /\ err' = build_dict_by_card_id(ratings_file, ids_file).err
    /\ n_build' = n_build + 1
    /\ out' = <<>>
    /\ pc' = "error"
    /\ UNCHANGED <<argv, ids_file, ratings_file, ratings_column, ratings_by_id,
                   n_read, line, dealt, pack>>

\* what no step of the read loop changes
LoopFrame == UNCHANGED <<argv, ids_file, ratings_file, ratings_column, n_build>>

\* "continue" without a pack
Continue(l) ==
    /\ line' = l
    /\ n_read' = 1
    /\ dealt' = <<>>
    /\ pack' = None
    /\ out' = <<>>
    /\ pc' = "readline"
    /\ UNCHANGED <<ratings_by_id, err>>
    /\ LoopFrame

\* an exception nothing catches
Raise(l, e) ==
    /\ line' = l
    /\ n_read' = 1
    /\ dealt' = <<>>
    /\ pack' = None
    /\ out' = <<>>
    /\ err' = e
    /\ pc' = "error"
    /\ UNCHANGED ratings_by_id
    /\ LoopFrame

\* readline() returns "": break
Eof ==
    /\ pc = "readline"
    /\ pc' = "done"
    /\ line' = <<>>
    /\ dealt' = <<>>
    /\ pack' = None
    /\ out' = <<>>
    /\ UNCHANGED <<ratings_by_id, n_read, err>>
    /\ LoopFrame

\* the lines by what the head of the loop body does with them
BlankLines == {l \in Lines : line_strip(l) = <<>>}

UnmatchedLines ==
    {l \in Lines : line_strip(l) # <<>> /\ draft_notify_re(line_strip(l)) = None}

MatchedLines ==
    {l \in Lines : line_strip(l) # <<>> /\ draft_notify_re(line_strip(l)) # None}

\* m.group("draft_notify") of a matched line
group(l) == draft_notify_re(line_strip(l))[1]

\* a line that is empty once stripped
BlankLine ==
    /\ pc = "readline"
    /\ \E l \in BlankLines : Continue(l)

\* a line the pattern does not match
NoMatch ==
    /\ pc = "readline"
    /\ \E l \in UnmatchedLines : Continue(l)

\* eval() of the matched text raises
EvalRaises ==
    /\ pc = "readline"
    /\ \E l \in MatchedLines :
        /\ eval(group(l)) = None
        /\ Raise(l, "SyntaxError")

\* DraftPack(ratings_by_id, **eval(...)) raises
DraftPackRaises ==
    /\ pc = "readline"
    /\ \E l \in MatchedLines :
        /\ eval(group(l)) # None
        /\ DraftPackError(ratings_by_id, eval(group(l))[1]) # ""
        /\ Raise(l, DraftPackError(ratings_by_id, eval(group(l))[1]))

\* a pack without cards: continue
EmptyPack ==
    /\ pc = "readline"
    /\ \E l \in MatchedLines :
        /\ eval(group(l)) # None
        /\ DraftPackError(ratings_by_id, eval(group(l))[1]) = ""
        /\ LET p == DraftPack(ratings_by_id, eval(group(l))[1])
           IN  /\ p.cards = <<>>
               /\ line' = l
               /\ n_read' = 1
               /\ dealt' = <<>>
               /\ pack' = Some(p)
               /\ out' = <<>>
               /\ pc' = "readline"
               /\ UNCHANGED <<ratings_by_id, err>>
               /\ LoopFrame

\* PrintPack taking the cards out of the table (dict.pop) as it resolves them
PrintPack_pops ==
    /\ pc = "readline"
    /\ \E l \in MatchedLines :
        /\ eval(group(l)) # None
        /\ DraftPackError(ratings_by_id, eval(group(l))[1]) = ""
        /\ LET p == DraftPack(ratings_by_id, eval(group(l))[1])
               ranked == [p EXCEPT !.cards = sort(p.cards, ratings_column)]
               popped == {IntChars(p.card_ids[i]) : i \in 1..Len(p.card_ids)}
           IN  /\ p.cards # <<>>
               /\ line' = l
               /\ n_read' = 1
               /\ dealt' = p.cards
               /\ pack' = Some(ranked)
               /\ out' = print_pack(ranked, ratings_column)
               /\ pc' = "readline"
               /\ ratings_by_id' =
                      [k \in DOMAIN ratings_by_id \ popped |-> ratings_by_id[k]]
               /\ UNCHANGED err
               /\ LoopFrame

\* a pack with cards: rank them in place and print them
PrintPack ==
    /\ pc = "readline"
    /\ \E l \in MatchedLines :
        /\ eval(group(l)) # None
        /\ DraftPackError(ratings_by_id, eval(group(l))[1]) = ""
        /\ LET p == DraftPack(ratings_by_id, eval(group(l))[1])
               ranked == [p EXCEPT !.cards = sort(p.cards, ratings_column)]
           IN  /\ p.cards # <<>>
               /\ line' = l
               /\ n_read' = 1
               /\ dealt' = p.cards
               /\ pack' = Some(ranked)
               /\ out' = print_pack(ranked, ratings_column)
               /\ pc' = "readline"
               /\ UNCHANGED <<ratings_by_id, err>>
               /\ LoopFrame

Next ==
    \/ ParseArgs
    \/ BuildDict
    \/ BuildDictRaises
    \/ Eof
    \/ BlankLine
    \/ NoMatch
    \/ EvalRaises
    \/ DraftPackRaises
    \/ EmptyPack
    \/ PrintPack

Spec == Init /\ [][Next]_vars

(***************************************************************************)
(* The start of the program under every command line                       *)
(***************************************************************************)
InitArgs ==
    /\ pc = "parse_args"
    /\ argv \in Argvs
    /\ ids_file = BoltOnly[1]
    /\ ratings_file = BoltOnly[2]
    /\ ratings_column = <<>>
    /\ ratings_by_id = <<>>
    /\ n_build = 0
    /\ n_read = 0
    /\ line = <<>>
    /\ dealt = <<>>
    /\ pack = None
    /\ out = <<>>
    /\ err = ""

NextArgs == ParseArgs

SpecArgs == InitArgs /\ [][NextArgs]_vars

(***************************************************************************)
(* The start of the program under every pair of tables                     *)
(***************************************************************************)
InitJoin ==
    /\ pc = "parse_args"
    /\ argv = <<>>
    /\ ids_file \in SeqUpTo(IdRowPool, MaxRows)
    /\ ratings_file \in SeqUpTo(StatRowPool, MaxRows)
    /\ ratings_column = <<>>
    /\ ratings_by_id = <<>>
    /\ n_build = 0
    /\ n_read = 0
    /\ line = <<>>
    /\ dealt = <<>>
    /\ pack = None
    /\ out = <<>>
    /\ err = ""

NextJoin ==
    \/ ParseArgs
    \/ BuildDict
    \/ BuildDictRaises

SpecJoin == InitJoin /\ [][NextJoin]_vars

(***************************************************************************)
(* The ranking step alone: pack.cards.sort(...) applied to every pack over *)
(* four cards under every list of sort keys                                *)
(***************************************************************************)
RankIds == {1, 2, 3, 4}

RankTable == build_dict_by_card_id(FourCards[2], FourCards[1]).dict

InitRank ==
    /\ pc = "sort"
    /\ argv = <<>>
    /\ ids_file = FourCards[1]
    /\ ratings_file = FourCards[2]
    /\ ratings_column \in SeqFrom1(RankTokens, MaxKeys)
    /\ ratings_by_id = RankTable
    /\ n_build = 1
    /\ n_read = 1
    /\ \E ids \in SeqFrom1(RankIds, MaxPack) :
        /\ line = <<TXT, MARK, DICT(Notify(3, ids))>>
        /\ pack = Some(DraftPack(RankTable, Notify(3, ids)))
        /\ dealt = DraftPack(RankTable, Notify(3, ids)).cards
    /\ out = <<>>
    /\ err = ""

\* pack.cards.sort(key=..., reverse=True)
Rank ==
    /\ pc = "sort"
    /\ pack' = Some([pack[1] EXCEPT !.cards = sort(pack[1].cards, ratings_column)])
    /\ pc' = "sorted"
    /\ UNCHANGED <<argv, ids_file, ratings_file, ratings_column, ratings_by_id,
                   n_build, n_read, line, dealt, out, err>>

NextRank == Rank

SpecRank == InitRank /\ [][NextRank]_vars

(***************************************************************************)
(* Notions the properties below are stated with                            *)
(***************************************************************************)
\* a line has been read and the loop body has run on it
LineProcessed == n_read = 1 /\ pc \in {"readline", "error"}

\* the stripped line holds the marker with an opening brace right after it
\* and ends with a closing brace
HasMarkerPattern(l) ==
    LET s == line_strip(l)
    IN  /\ s # <<>>
        /\ s[Len(s)].t = "dict"
        /\ \E i \in 1..(Len(s) - 1) : s[i].t = "mark" /\ s[i + 1].t = "dict"

\* the line is a notification carrying exactly the mapping d
Carries(l, d) ==
    /\ HasMarkerPattern(l)
    /\ \E i \in 1..(Len(l) - 1) :
        /\ l[i].t = "mark"
        /\ l[i + 1] = DICT(d)
        /\ \A j \in (i + 2)..Len(l) : l[j].t = "ws"

WellFormedPayloads ==
    {Notify(n, ids) : n \in PickNumbers, ids \in SeqUpTo(CardIds, MaxPack)}

MalformedPayloads == {NoCardIds, MistypedKey}

\* the metric a sort key names, and its value on a card with absent as 0
KeyColumn(k) == IF Head(k) = "-" THEN Tail(k) ELSE k

Ascending(k) == Head(k) = "-"

MetricOr0(card, k) ==
    LET v == card["_" \o columns[KeyColumn(k)]]
    IN  IF v = <<>> THEN 0 ELSE v[1]

SameTuple(a, b, keys) ==
    \A i \in 1..Len(keys) : MetricOr0(a, keys[i]) = MetricOr0(b, keys[i])

\* a may stand before b: at the first key on which they differ, a has the
\* higher value of a descending key or the lower value of an ascending one
MayPrecede(a, b, keys) ==
    \A i \in 1..Len(keys) :
        (\A j \in 1..(i - 1) : MetricOr0(a, keys[j]) = MetricOr0(b, keys[j]))
            => IF Ascending(keys[i])
               THEN MetricOr0(a, keys[i]) <= MetricOr0(b, keys[i])
               ELSE MetricOr0(a, keys[i]) >= MetricOr0(b, keys[i])

Count(s, x) == Cardinality({i \in 1..Len(s) : s[i] = x})

SamePack(s, t) ==
    /\ Len(s) = Len(t)
    /\ \A x \in Range(s) \cup Range(t) : Count(s, x) = Count(t, x)

RECURSIVE Only(_, _)
\* the elements of s that are in S, in order
Only(s, S) ==
    IF s = <<>> THEN <<>>
    ELSE IF Head(s) \in S THEN <<Head(s)>> \o Only(Tail(s), S)
    ELSE Only(Tail(s), S)

(***************************************************************************)
(* C1.  A line that matches the Draft.Notify marker but carries a          *)
(* malformed payload (card_ids missing, a key misspelt) prints nothing and *)
(* leaves the process alive, reading on.  The code has no handler around   *)
(* DraftPack(...): the TypeError ends the process.                         *)
(***************************************************************************)
C1_MalformedPayloadSkipped ==
    (LineProcessed /\ \E d \in MalformedPayloads : Carries(line, d))
        => (pc = "readline" /\ out = <<>>)

(***************************************************************************)
(* C2.  A notification whose card_ids hold an id that is no key of the     *)
(* lookup table is skipped and the loop goes on with the next line.  The   *)
(* KeyError of ratings_by_id[str(card_id)] ends the process.               *)
(***************************************************************************)
C2_UnresolvedCardIdSkipped ==
    (LineProcessed /\ \E d \in WellFormedPayloads :
                          /\ Carries(line, d)
                          /\ \E i \in 1..Len(d.card_ids) :
                                IntChars(d.card_ids[i]) \notin DOMAIN ratings_by_id)
        => pc = "readline"

(***************************************************************************)
(* C3.  A line that does not match the marker pattern, a blank line        *)
(* included, prints nothing and raises nothing, and the loop reads on;     *)
(* whatever the loop prints, it prints for a line that matches.            *)
(***************************************************************************)
C3_UnmatchedLineSilent ==
    /\ (LineProcessed /\ ~HasMarkerPattern(line))
           => (out = <<>> /\ err = "" /\ pc = "readline")
    /\ (n_read = 1 /\ out # <<>>) => HasMarkerPattern(line)

C3_Witness ==
    /\ LineProcessed
    /\ pc = "readline"
    /\ line = <<TXT, DICT(Notify(3, <<1>>))>>
    /\ DOMAIN ratings_by_id = {<<"1">>}
    /\ out = <<>>

(***************************************************************************)
(* C4.  The ranked cards are the dealt cards in lexicographic order of the *)
(* sort keys: the first key decides, a later key only breaks ties of the   *)
(* keys before it, a plain key orders high to low, a "-" key low to high,  *)
(* and an absent value counts as 0.                                        *)
(***************************************************************************)
C4_RankedLexicographic ==
    pc = "sorted" =>
        /\ SamePack(pack[1].cards, dealt)
        /\ \A i \in 1..(Len(pack[1].cards) - 1) :
              MayPrecede(pack[1].cards[i], pack[1].cards[i + 1], ratings_column)

\* GIH WR high to low, the tie of Opt and Elf broken by ALSA low to high, and
\* Bear, without a GIH WR, last
C4_Witness ==
    /\ pc = "sorted"
    /\ ratings_column = <<GIH_WR, Neg(ALSA)>>
    /\ pack[1].card_ids = <<3, 4, 2>>
    /\ [i \in 1..3 |-> pack[1].cards[i].card_id] = <<2, 4, 3>>

(***************************************************************************)
(* C5.  Ranking is stable: two different cards of equal comparison tuples  *)
(* (absent as 0) stand in the ranked pack in the order they were dealt in; *)
(* and ranking the ranked pack again leaves it as it is.                   *)
(***************************************************************************)
C5_RankingStable ==
    pc = "sorted" =>
        /\ \A a, b \in Range(dealt) :
              (a # b /\ SameTuple(a, b, ratings_column))
                  => Only(pack[1].cards, {a, b}) = Only(dealt, {a, b})
        /\ sort(pack[1].cards, ratings_column) = pack[1].cards

\* Opt and Bolt tie on ALSA and keep their order; Elf moves behind them
C5_Witness ==
    /\ pc = "sorted"
    /\ ratings_column = <<Neg(ALSA)>>
    /\ pack[1].card_ids = <<4, 2, 1>>
    /\ [i \in 1..3 |-> pack[1].cards[i].card_id] = <<2, 1, 4>>

(***************************************************************************)
(* C6.  A metric whose value is absent has the empty display string, so    *)
(* its column of the card line shows the placeholder.  The integer counts  *)
(* are displayed with str(value) or "", and str(None) is "None".           *)
(***************************************************************************)
C6_AbsentDisplaysEmpty ==
    (pc = "readline" /\ out # <<>>) =>
        \A i \in 1..Len(pack[1].cards) : \A j \in 1..Len(ratings_column) :
            LET card == pack[1].cards[i]
                k == ratings_column[j]
            IN  card["_" \o columns[KeyColumn(k)]] = None =>
                    /\ getattr(card, columns[KeyColumn(k)]) = ""
                    /\ print_column(card, k)
                           = Text(replace(KeyColumn(k), " ", "_")) \o " =  --- "

(***************************************************************************)
(* C7.  As claimed: whenever every (stripped) name of the ratings rows is  *)
(* a name of the ids rows, build_dict_by_card_id returns, and the table    *)
(* has one entry for each ratings row, each under its own numeric id.      *)
(* That fails when two ratings rows select the same card, when two cards   *)
(* share an id, and when a field does not parse.                           *)
(***************************************************************************)
TrimmedName(row) == strip(row[Name], Whitespace)

NamesKnown ==
    \A i \in 1..Len(ratings_file) :
        \E j \in 1..Len(ids_file) :
            TrimmedName(ids_file[j]) = TrimmedName(ratings_file[i])

\* the ids row a ratings row is joined with: the last one of its name
Selected(i) ==
    ids_file[Max({j \in 1..Len(ids_file) :
                     TrimmedName(ids_file[j]) = TrimmedName(ratings_file[i])})]

BlankOrInt(row, col) == col \in DOMAIN row /\ row[col] # <<>> => int(row[col]) # None

BlankOrFloat(row, col, suffix) ==
    col \in DOMAIN row /\ row[col] # <<>> => float(strip(row[col], suffix)) # None

FieldsParse(i) ==
    /\ int(Selected(i)[CardID]) # None
    /\ BlankOrInt(ratings_file[i], NumSeen)
    /\ BlankOrFloat(ratings_file[i], ALSA, {})
    /\ BlankOrFloat(ratings_file[i], GIH_WR, {"%"})
    /\ BlankOrFloat(ratings_file[i], IWD, {"p"})

DistinctIds ==
    \A i, j \in 1..Len(ratings_file) :
        i # j => int(Selected(i)[CardID]) # int(Selected(j)[CardID])

BuildReturned == pc \in {"readline", "error"} /\ n_build = 1

OneEntryPerRow ==
    /\ pc = "readline"
    /\ err = ""
    /\ Cardinality(DOMAIN ratings_by_id) = Len(ratings_file)
    /\ \A k \in DOMAIN ratings_by_id :
          int(k) # None /\ ratings_by_id[k].card_id = int(k)[1]
    /\ \A k1, k2 \in DOMAIN ratings_by_id : k1 # k2 => int(k1) # int(k2)

C7_Original == (BuildReturned /\ NamesKnown) => OneEntryPerRow

(***************************************************************************)
(* C7, amended.  Whenever every (stripped) name of the ratings rows is a   *)
(* name of the ids rows, the ids rows they select (the last of each name)  *)
(* carry numeric ids that differ from one ratings row to the next, and     *)
(* every metric field is blank or parses, build_dict_by_card_id returns,   *)
(* and the table has one entry for each ratings row, each under its own    *)
(* numeric id.                                                             *)
(***************************************************************************)
C7_JoinTotal ==
    (/\ BuildReturned
     /\ NamesKnown
     /\ \A i \in 1..Len(ratings_file) : FieldsParse(i)
     /\ DistinctIds)
        => OneEntryPerRow

\* two rows joined, the names of one of them matching only once stripped
C7_Witness ==
    /\ BuildReturned
    /\ ids_file = <<IdBolt, IdOpt>>
    /\ ratings_file = <<StOpt, StBolt>>
    /\ DOMAIN ratings_by_id = {<<"1">>, <<"2">>}

(***************************************************************************)
(* C8.  As claimed: with the table of Bolt alone, the sort keys ["GIH WR"] *)
(* and the notification of draft d1, pack 1, pick 3, cards [1], the loop   *)
(* prints the header and one card line whose running index is 04.          *)
(***************************************************************************)
RECURSIVE NonBlank(_)
\* the printed lines that are not empty
NonBlank(ls) ==
    IF ls = <<>> THEN <<>>
    ELSE IF Head(ls) = "" THEN NonBlank(Tail(ls))
    ELSE <<Head(ls)>> \o NonBlank(Tail(ls))

C8_Scenario ==
    /\ LineProcessed
    /\ ids_file = BoltOnly[1]
    /\ ratings_file = BoltOnly[2]
    /\ DOMAIN ratings_by_id = {<<"1">>}
    /\ ratings_column = <<GIH_WR>>
    /\ Carries(line, Notify(3, <<1>>))

C8_Original ==
    C8_Scenario =>
        NonBlank(out) = <<"Draft d1 Pack 1 Pick 3:",
                          "04:\tGIH_WR = 62.50%\t|\t1\t'Bolt'\tR\tC">>

(***************************************************************************)
(* C8, amended.  In that scenario the loop prints the header 'Draft d1     *)
(* Pack 1 Pick 3:' (two empty lines before it, one after) and exactly one  *)
(* card line, whose running index is 03, the pick number itself, and whose *)
(* other fields are GIH_WR = 62.50%, card id 1, name 'Bolt', color R,      *)
(* rarity C.                                                               *)
(***************************************************************************)
C8_EndToEnd ==
    C8_Scenario =>
        /\ pc = "readline"
        /\ out = <<"", "", "Draft d1 Pack 1 Pick 3:", "",
                   "03:\tGIH_WR = 62.50%\t|\t1\t'Bolt'\tR\tC">>

C8_Witness == C8_Scenario /\ Len(NonBlank(out)) = 2

(***************************************************************************)
(* C9.  The sort keys in effect are the tokens given with --ratings-column *)
(* in the order given, each kept once at its first place; no token the     *)
(* user did not give is among them, and ["GIH WR"] is the list only when   *)
(* none is given.  SetAddAction extends the default list, so "GIH WR"      *)
(* always comes first.                                                     *)
(***************************************************************************)
RECURSIVE Flatten(_)
Flatten(ss) == IF ss = <<>> THEN <<>> ELSE Head(ss) \o Flatten(Tail(ss))

RECURSIVE FirstOccurrences(_)
FirstOccurrences(s) ==
    IF s = <<>> THEN <<>>
    ELSE LET init == FirstOccurrences(SubSeq(s, 1, Len(s) - 1))
         IN  IF s[Len(s)] \in Range(init) THEN init ELSE Append(init, s[Len(s)])

C9_SuppliedKeysOnly ==
    pc = "build" =>
        ratings_column = IF argv = <<>> THEN <<GIH_WR>>
                         ELSE FirstOccurrences(Flatten(argv))

(***************************************************************************)
(* C10.  The lookup table is built once, before the first line is read,    *)
(* and no step of the read loop changes it or builds it again.             *)
(***************************************************************************)
C10_TableBuiltOnceAndKept ==
    /\ [](n_read = 1 => n_build = 1)
    /\ [][pc = "readline" =>
             (ratings_by_id' = ratings_by_id /\ n_build' = n_build)]_vars

\* a pack has been ranked in place into another order than dealt
C10_Witness ==
    /\ pc = "readline"
    /\ n_read = 1
    /\ pack # None
    /\ dealt # <<>>
    /\ pack[1].cards # dealt
    /\ Cardinality(DOMAIN ratings_by_id) = 2

====
